---------------------------- MODULE Spec2Model ----------------------------
(***************************************************************************)
(* JAWS / Case Manager reconciliation (src/done.py, class JAWSCasemgrRecon) *)
(*                                                                         *)
(* Text values are sequences of one-character strings, so that split,      *)
(* strip and upper are computed character by character.  A table is a      *)
(* sequence of records (one record per row, one field per column).         *)
(***************************************************************************)
EXTENDS Integers, Sequences, FiniteSets, TLC

\* ------------------------------------------------------------------------
\* Bounds of the model
\* ------------------------------------------------------------------------
MaxCaseRows == 2      \* rows of the "Casemgr" sheet
MaxJawsRows == 2      \* rows of the "JAWS DB" sheet
MaxEntries == 3       \* entries of the largest CASE_DATA array
MaxClock == 2         \* clock ticks a behaviour may take
TicksPerSecond == 2   \* clock ticks inside one wall-clock second
MaxRuns == 3          \* invocations of an entry operation in one behaviour

\* ------------------------------------------------------------------------
\* Text
\* ------------------------------------------------------------------------
\* A missing text cell (None / NaN in a text column).
NoneStr == <<"None">>
\* A missing cell of a status or identifier column.
NaN == "NaN"

\* The characters used, in code-point order.
Ascii == <<" ", "1", "2", "3", "A", "B", "C", "D", "E", "M", "N", "S", "Y", "a", "b">>
Whitespace == {" "}
Ord(c) == CHOOSE i \in 1..Len(Ascii) : Ascii[i] = c

\* str.split(sep): n separators give n + 1 segments, empty ones included.
RECURSIVE SplitAcc(_, _, _, _)
SplitAcc(s, sep, cur, acc) ==
    IF s = <<>> THEN Append(acc, cur)
    ELSE IF Head(s) = sep THEN SplitAcc(Tail(s), sep, <<>>, Append(acc, cur))
    ELSE SplitAcc(Tail(s), sep, Append(cur, Head(s)), acc)

str_split(s, sep) == SplitAcc(s, sep, <<>>, <<>>)

\* str.strip(): leading and trailing whitespace removed, interior kept.
RECURSIVE LStrip(_)
LStrip(s) == IF s # <<>> /\ Head(s) \in Whitespace THEN LStrip(Tail(s)) ELSE s
RECURSIVE RStrip(_)
RStrip(s) ==
    IF s # <<>> /\ s[Len(s)] \in Whitespace THEN RStrip(SubSeq(s, 1, Len(s) - 1)) ELSE s
str_strip(s) == RStrip(LStrip(s))

\* str.upper()
UpperChar(c) == CASE c = "a" -> "A" [] c = "b" -> "B" [] OTHER -> c
str_upper(s) == [i \in 1..Len(s) |-> UpperChar(s[i])]

\* Series.str.strip().str.upper(): a missing cell stays missing.
NoNormalize(v) == v
Normalize(v) == IF v = NoneStr THEN NoneStr ELSE str_upper(str_strip(v))

\* Lexicographic order of text, missing values last (the order of a sorted join).
RECURSIVE LexLess(_, _)
LexLess(a, b) ==
    IF a = <<>> THEN b # <<>>
    ELSE IF b = <<>> THEN FALSE
    ELSE IF Head(a) = Head(b) THEN LexLess(Tail(a), Tail(b))
    ELSE Ord(Head(a)) < Ord(Head(b))
KeyLess(a, b) ==
    IF a = NoneStr THEN FALSE
    ELSE IF b = NoneStr THEN TRUE
    ELSE LexLess(a, b)

RECURSIVE SortKeys(_)
SortKeys(S) ==
    IF S = {} THEN <<>>
    ELSE LET m == CHOOSE x \in S : \A y \in S \ {x} : KeyLess(x, y)
         IN <<m>> \o SortKeys(S \ {m})

\* ------------------------------------------------------------------------
\* Generic sequence helpers
\* ------------------------------------------------------------------------
Range(s) == {s[i] : i \in 1..Len(s)}
RECURSIVE Flatten(_)
Flatten(ss) == IF ss = <<>> THEN <<>> ELSE Head(ss) \o Flatten(Tail(ss))
SelectIdx(s, Test(_)) ==
    LET RECURSIVE go(_)
        go(i) == IF i > Len(s) THEN <<>>
                 ELSE IF Test(s[i]) THEN <<s[i]>> \o go(i + 1) ELSE go(i + 1)
    IN go(1)
MaxOf(S) == IF S = {} THEN 0 ELSE CHOOSE x \in S : \A y \in S : y <= x

\* ------------------------------------------------------------------------
\* The two sheets of data/jaws_bpm_recon_raw_data_case_mgr.xlsx
\* ------------------------------------------------------------------------
\* A CASE_DATA cell: text that is a JSON array of n entries, or text that is
\* not JSON at all.
EntryNames == <<"e1", "e2", "e3", "e4", "e5", "e6">>
JsonArray(n) == [kind |-> "array", items |-> SubSeq(EntryNames, 1, n)]
BadJson == [kind |-> "invalid", items |-> <<>>]

\* Keys: marker "3" Symbol "3" marker "3" Security ID.
Prefix == <<"M", "3", "S", "3", "N", "3">>
Key_AB == Prefix \o <<"A", "B">>
Key_ab == Prefix \o <<" ", "a", "b">>
Key_C == Prefix \o <<"C">>
Key_Short == <<"M", "3", "S">>
Key_Example == <<"A", "3", "S", "Y", "M", "3", "B", "3", "S", "E", "C", "1", "2", "3">>
Keys == {Key_AB, Key_ab, Key_C, Key_Short, Key_Example}

Id_ab == <<"a", "b", " ">>
Id_A_B == <<"A", " ", "B">>
Id_D == <<"D">>
Idns == {Id_ab, Id_A_B, Id_D}

\* Rows of the "Casemgr" sheet: the base row, and the rows that differ from it
\* in one column.  JOURNAL_ID is set from the row's position (see CaseTables).
BaseCaseRow == [CASE_DATA |-> JsonArray(1), key |-> Key_AB, value |-> "OPEN", JOURNAL_ID |-> "J"]
CaseRows ==
    {[BaseCaseRow EXCEPT !.key = k] : k \in Keys}
    \cup {[BaseCaseRow EXCEPT !.value = NaN]}
    \cup {[BaseCaseRow EXCEPT !.CASE_DATA = c] : c \in {BadJson, JsonArray(MaxEntries)}}

\* Rows of the "JAWS DB" sheet, likewise.
BaseJawsRow == [IDN_REQUEST |-> Id_ab, CDE_JNL_STA |-> "OPEN"]
JawsRows ==
    {[BaseJawsRow EXCEPT !.IDN_REQUEST = i] : i \in Idns}
    \cup {[BaseJawsRow EXCEPT !.CDE_JNL_STA = "CLOSED"]}

JournalIds == <<"J1", "J2", "J3", "J4">>
SeqsUpTo(S, n) == UNION {[1..k -> S] : k \in 0..n}
Numbered(t) == [i \in 1..Len(t) |-> [t[i] EXCEPT !.JOURNAL_ID = JournalIds[i]]]
CaseTables == {Numbered(t) : t \in SeqsUpTo(CaseRows, MaxCaseRows)}
JawsTables == SeqsUpTo(JawsRows, MaxJawsRows)

\* The workbook, or the value standing for a file that cannot be read.
MissingFile == [present |-> FALSE, Casemgr |-> <<>>, JAWS_DB |-> <<>>]
Workbook(c, j) == [present |-> TRUE, Casemgr |-> c, JAWS_DB |-> j]

\* ------------------------------------------------------------------------
\* process_data
\* ------------------------------------------------------------------------
\* json.loads on one cell.
json_loads_lenient(cell) == [ok |-> TRUE, value |-> cell.items]
json_loads(cell) == [ok |-> cell.kind = "array", value |-> cell.items]

\* DataFrame.explode("CASE_DATA"): one row per entry of the list, the other
\* columns repeated; an empty list gives one row with a missing CASE_DATA.
ExplodeKeepFirst(row) == <<[row EXCEPT !.CASE_DATA = IF row.CASE_DATA = <<>> THEN NaN ELSE row.CASE_DATA[1]]>>
ExplodeRow(row) ==
    IF row.CASE_DATA = <<>> THEN <<[row EXCEPT !.CASE_DATA = NaN]>>
    ELSE [i \in 1..Len(row.CASE_DATA) |-> [row EXCEPT !.CASE_DATA = row.CASE_DATA[i]]]
explode(rows) == Flatten([i \in 1..Len(rows) |-> ExplodeRow(rows[i])])

\* Series.str.split("3", expand=True): as many columns as the longest split;
\* shorter rows are padded with missing values.
SplitWidth(rows) == MaxOf({Len(str_split(rows[i].key, "3")) : i \in 1..Len(rows)})
Cell(segs, n) == IF n <= Len(segs) THEN segs[n] ELSE NoneStr

\* The four target columns of the assignment on source lines 86-88.
SplitTargets == 4

\* Lines 86-93 for one exploded row: the split columns assigned, "value"
\* renamed to "Status", key / colNull / nullcol dropped, Security ID cleaned.
CaseRecordSwapped(row) ==
    LET segs == str_split(row.key, "3")
    IN [CASE_DATA |-> row.CASE_DATA, JOURNAL_ID |-> row.JOURNAL_ID,
        Status |-> row.value, Symbol |-> Cell(segs, 4),
        Security_ID |-> Normalize(Cell(segs, 2))]
CaseRecord(row) ==
    LET segs == str_split(row.key, "3")
    IN [CASE_DATA |-> row.CASE_DATA, JOURNAL_ID |-> row.JOURNAL_ID,
        Status |-> row.value, Symbol |-> Cell(segs, 2),
        Security_ID |-> Normalize(Cell(segs, 4))]

JawsRecord(row) == [row EXCEPT !.IDN_REQUEST = Normalize(row.IDN_REQUEST)]

Raised(e) == [ok |-> FALSE, err |-> e, case_df |-> <<>>, jaws_df |-> <<>>]

\* The check pandas makes when a frame is assigned to a list of columns.
AnyWidth(width) == TRUE
ColumnsMatchKey(width) == width = SplitTargets

process_data(jaws_data, casemgr_data) ==
    LET loaded == [i \in 1..Len(casemgr_data) |-> json_loads(casemgr_data[i].CASE_DATA)]
        parsed == [i \in 1..Len(casemgr_data) |->
                      [casemgr_data[i] EXCEPT !.CASE_DATA = loaded[i].value]]
        rows == explode(parsed)
    IN IF \E i \in 1..Len(loaded) : ~loaded[i].ok THEN Raised("JSONDecodeError")
       ELSE IF ~ColumnsMatchKey(SplitWidth(rows)) THEN Raised("ValueError")
       ELSE [ok |-> TRUE, err |-> "none",
             case_df |-> [i \in 1..Len(rows) |-> CaseRecord(rows[i])],
             jaws_df |-> [i \in 1..Len(jaws_data) |-> JawsRecord(jaws_data[i])]]

\* ------------------------------------------------------------------------
\* merge_data, compare_data
\* ------------------------------------------------------------------------
\* Mapping.jaws_casestatus_map: a total function of the two statuses, with a
\* fallback for a pair outside the vocabulary.
jaws_casestatus_map(jaws_status, case_status) ==
    IF jaws_status = NaN \/ case_status = NaN THEN "Unmapped"
    ELSE IF jaws_status = case_status THEN jaws_status
    ELSE "Review"

calreconstatuscase(case_status, jaws_status) == jaws_casestatus_map(jaws_status, case_status)

\* The columns of a side that has no counterpart in a merged row.
AbsentCase == [CASE_DATA |-> NaN, JOURNAL_ID |-> NaN, Status |-> NaN,
               Symbol |-> NoneStr, Security_ID |-> NoneStr]
AbsentJaws == [IDN_REQUEST |-> NoneStr, CDE_JNL_STA |-> NaN]

MergedRow(c, j) ==
    [CASE_DATA |-> c.CASE_DATA, JOURNAL_ID |-> c.JOURNAL_ID, Status |-> c.Status,
     Symbol |-> c.Symbol, Security_ID |-> c.Security_ID,
     IDN_REQUEST |-> j.IDN_REQUEST, CDE_JNL_STA |-> j.CDE_JNL_STA,
     Recon_Status |-> calreconstatuscase(c.Status, j.CDE_JNL_STA)]

\* The rows pd.merge(how=...) gives for one key value: every pairing of the
\* left rows with the right rows, or the rows of the one side that has any.
LeftRowsOf(k, case_df, jaws_df) ==
    LET L == SelectIdx(case_df, LAMBDA r : r.Security_ID = k)
        R == SelectIdx(jaws_df, LAMBDA r : r.IDN_REQUEST = k)
    IN IF R = <<>> THEN [i \in 1..Len(L) |-> MergedRow(L[i], AbsentJaws)]
       ELSE Flatten([i \in 1..Len(L) |-> [j \in 1..Len(R) |-> MergedRow(L[i], R[j])]])
OuterRowsOf(k, case_df, jaws_df) ==
    LET L == SelectIdx(case_df, LAMBDA r : r.Security_ID = k)
        R == SelectIdx(jaws_df, LAMBDA r : r.IDN_REQUEST = k)
    IN IF L = <<>> THEN [j \in 1..Len(R) |-> MergedRow(AbsentCase, R[j])]
       ELSE IF R = <<>> THEN [i \in 1..Len(L) |-> MergedRow(L[i], AbsentJaws)]
       ELSE Flatten([i \in 1..Len(L) |-> [j \in 1..Len(R) |-> MergedRow(L[i], R[j])]])

\* pd.merge(case_df, jaws_df, left_on="Security ID", right_on="IDN_REQUEST",
\* how="outer"), keys in sorted order, then the "Recon Status" column;
\* np.vectorize refuses an input of size 0.
merge_data(case_df, jaws_df) ==
    LET keys == {case_df[i].Security_ID : i \in 1..Len(case_df)}
                \cup {jaws_df[j].IDN_REQUEST : j \in 1..Len(jaws_df)}
        order == SortKeys(keys)
        merged == Flatten([n \in 1..Len(order) |-> OuterRowsOf(order[n], case_df, jaws_df)])
    IN IF merged = <<>> THEN [ok |-> FALSE, err |-> "ValueError", merged |-> <<>>]
       ELSE [ok |-> TRUE, err |-> "none", merged |-> merged]

\* Element-wise != of two columns: a missing value differs from everything.
BothPresentNotEqual(a, b) == a # NaN /\ b # NaN /\ a # b
NotEqual(a, b) == a = NaN \/ b = NaN \/ a # b

\* merged_data[merged_data["Status"] != merged_data["CDE_JNL_STA"]]
compare_data(merged_data) ==
    SelectIdx(merged_data, LAMBDA r : NotEqual(r.Status, r.CDE_JNL_STA))

\* ------------------------------------------------------------------------
\* State
\* ------------------------------------------------------------------------
Procs == {1, 2}

VARIABLES
    workbook,     \* data/jaws_bpm_recon_raw_data_case_mgr.xlsx
    config,       \* the keys AppGlobal.Config can resolve
    registry,     \* the query names Query can resolve
    now,          \* the clock, in ticks
    temp_dir,     \* the temp directory: exists, its unrelated files, its reports
    run,          \* per process: the position and the locals of its current run;
                  \* trace (history) lists the steps of the run that succeeded
    invocations,  \* history: entry operations invoked so far
    overlap,      \* history: the current runs of the two processes overlapped
    events        \* history: "mkdir_race", "overwrite" once they have happened

vars == <<workbook, config, registry, now, temp_dir, run, invocations, overlap, events>>

ConfigKeys == {"JAWSDBConnectionString", "CaseMgrDBConnectionString", "TempDirectory"}
QueryNames == {"Test_Sql", "CaseMgr_Sql"}
\* Everything resolvable, or exactly one name missing.
Envs ==
    {[config |-> ConfigKeys, registry |-> QueryNames]}
    \cup {[config |-> ConfigKeys \ {k}, registry |-> QueryNames] : k \in ConfigKeys}
    \cup {[config |-> ConfigKeys, registry |-> QueryNames \ {q}] : q \in QueryNames}

NoFile == <<>>
FreshRun == [pc |-> "idle", mode |-> "none", err |-> "none", trace |-> <<>>,
             full_jaws_data |-> <<>>, jaws_data |-> <<>>, casemgr_data |-> <<>>,
             case_df |-> <<>>, jaws_df |-> <<>>, merged_data |-> <<>>,
             discrepancies |-> <<>>, output_file |-> NoFile]

Unrelated == {"keep.txt"}
\* made_by: the process whose run created the directory, 0 when no run did.
AbsentDir == [exists |-> FALSE, other |-> {}, reports |-> {}, made_by |-> 0]
ExistingDir == [exists |-> TRUE, other |-> Unrelated, reports |-> {}, made_by |-> 0]

\* The workbooks of the concurrent specification: unreadable, one with a
\* discrepancy, one with text that is not JSON, one with a five-segment key.
SmallWorkbooks ==
    {MissingFile,
     Workbook(Numbered(<<BaseCaseRow>>), <<[BaseJawsRow EXCEPT !.CDE_JNL_STA = "CLOSED"]>>),
     Workbook(Numbered(<<[BaseCaseRow EXCEPT !.CASE_DATA = BadJson]>>), <<BaseJawsRow>>),
     Workbook(Numbered(<<[BaseCaseRow EXCEPT !.key = Key_Example]>>), <<BaseJawsRow>>)}

\* What the JAWS database may return to executeProcedure.
FetchTables == {<<>>, <<[IDN_REQUEST |-> Id_D, CDE_JNL_STA |-> "OPEN"]>>}

InFlight(p) == run[p].pc \notin {"idle", "done", "aborted"}

Init ==
    /\ workbook \in SmallWorkbooks
    /\ \E e \in Envs : config = e.config /\ registry = e.registry
    /\ now = 0
    /\ temp_dir \in {AbsentDir, ExistingDir}
    /\ run = [p \in Procs |-> FreshRun]
    /\ invocations = 0
    /\ overlap = FALSE
    /\ events = {}

\* One workbook of any content within the bounds, everything resolvable, the
\* temp directory not yet there.
InitData ==
    /\ workbook \in {MissingFile} \cup {Workbook(c, j) : c \in CaseTables, j \in JawsTables}
    /\ config = ConfigKeys /\ registry = QueryNames
    /\ now = 0
    /\ temp_dir = AbsentDir
    /\ run = [p \in Procs |-> FreshRun]
    /\ invocations = 0
    /\ overlap = FALSE
    /\ events = {}

\* ------------------------------------------------------------------------
\* Steps of a run
\* ------------------------------------------------------------------------
\* An exception: nothing catches it, the run ends where it is raised.
SwallowAndFallBack(p, e) ==
    run' = [run EXCEPT ![p].pc = "read_excel", ![p].err = e]
Fail(p, e) ==
    run' = [run EXCEPT ![p].pc = "aborted", ![p].err = e]

\* The step named `step` succeeded; r is the run's record after it.
Goto(p, r, step, next) ==
    run' = [run EXCEPT ![p] = [r EXCEPT !.pc = next, !.trace = Append(r.trace, step)]]

\* A caller invokes execute_locally or execute_full.
Invoke(p, m) ==
    /\ ~InFlight(p)
    /\ invocations < MaxRuns
    /\ invocations' = invocations + 1
    /\ run' = [run EXCEPT ![p] = [FreshRun EXCEPT !.mode = m,
                  !.pc = IF m = "full" THEN "config_jaws" ELSE "read_excel"]]
    /\ overlap' = \E q \in Procs \ {p} : InFlight(q)
    /\ UNCHANGED <<workbook, config, registry, now, temp_dir, events>>

Tick ==
    /\ now < MaxClock
    /\ now' = now + 1
    /\ UNCHANGED <<workbook, config, registry, temp_dir, run, invocations, overlap, events>>

Shared == <<workbook, config, registry, now, temp_dir, invocations, overlap, events>>

\* The contracts of the collaborators: Config.get and Query fail with NotFound
\* on a name they cannot resolve; SqlClient fails with ConnectionError on an
\* unreachable database, executeProcedure with ConnectionError or QueryError.
ConfigResolves(key) == key \in config
QueryResolves(name) == name \in registry
SqlClientOutcomes == {"ok", "ConnectionError"}
ExecuteOutcomes == {"ok", "ConnectionError", "QueryError"}

\* AppGlobal.Config.get(section, key) at position `at`.
ConfigGet(p, at, key, next) ==
    /\ run[p].pc = at
    /\ IF ConfigResolves(key) THEN Goto(p, run[p], at, next) ELSE Fail(p, "NotFound")
    /\ UNCHANGED Shared

\* SqlClient(connection string)
SqlClientNew(p, at, next) ==
    /\ run[p].pc = at
    /\ \E outcome \in SqlClientOutcomes :
          IF outcome = "ok" THEN Goto(p, run[p], at, next) ELSE Fail(p, outcome)
    /\ UNCHANGED Shared

\* Query(name)
QueryNew(p, at, name, next) ==
    /\ run[p].pc = at
    /\ IF QueryResolves(name) THEN Goto(p, run[p], at, next) ELSE Fail(p, "NotFound")
    /\ UNCHANGED Shared

\* execute_full, lines 140-142
execute_full_config_jaws(p) == ConfigGet(p, "config_jaws", "JAWSDBConnectionString", "client_jaws")
execute_full_client_jaws(p) == SqlClientNew(p, "client_jaws", "query_test")
execute_full_query_test(p) == QueryNew(p, "query_test", "Test_Sql", "execute")

\* execute_full, lines 145-149: the time filter (now minus 30 minutes, a
\* parameter of the query only) and the JAWS query
execute_full_execute(p) ==
    /\ run[p].pc = "execute"
    /\ \E outcome \in ExecuteOutcomes :
          IF outcome = "ok"
          THEN \E t \in FetchTables :
                  Goto(p, [run[p] EXCEPT !.full_jaws_data = t], "execute", "config_case")
          ELSE Fail(p, outcome)
    /\ UNCHANGED Shared

\* execute_full, lines 153-159: the unused Case Manager client and query, then
\* the call of execute_locally
execute_full_config_case(p) == ConfigGet(p, "config_case", "CaseMgrDBConnectionString", "client_case")
execute_full_client_case(p) == SqlClientNew(p, "client_case", "query_case")
execute_full_query_case(p) == QueryNew(p, "query_case", "CaseMgr_Sql", "read_excel")

\* execute_locally, lines 29-42: both sheets read, then analyze_data
ThreadedJaws(r) == IF r.mode = "full" THEN r.full_jaws_data ELSE workbook.JAWS_DB
SheetJaws(r) == workbook.JAWS_DB

execute_locally(p) ==
    /\ run[p].pc = "read_excel"
    /\ IF workbook.present
       THEN Goto(p, [run[p] EXCEPT !.casemgr_data = workbook.Casemgr,
                                   !.jaws_data = SheetJaws(run[p])],
                 "read_excel", "process")
       ELSE Fail(p, "FileNotFoundError")
    /\ UNCHANGED Shared

\* analyze_data, line 52
analyze_data_process(p) ==
    /\ run[p].pc = "process"
    /\ LET res == process_data(run[p].jaws_data, run[p].casemgr_data)
       IN IF res.ok
          THEN Goto(p, [run[p] EXCEPT !.case_df = res.case_df, !.jaws_df = res.jaws_df],
                    "process", "merge")
          ELSE Fail(p, res.err)
    /\ UNCHANGED Shared

\* analyze_data, line 55
analyze_data_merge(p) ==
    /\ run[p].pc = "merge"
    /\ LET res == merge_data(run[p].case_df, run[p].jaws_df)
       IN IF res.ok
          THEN Goto(p, [run[p] EXCEPT !.merged_data = res.merged], "merge", "compare")
          ELSE Fail(p, res.err)
    /\ UNCHANGED Shared

\* analyze_data, line 58
analyze_data_compare(p) ==
    /\ run[p].pc = "compare"
    /\ Goto(p, [run[p] EXCEPT !.discrepancies = compare_data(run[p].merged_data)],
            "compare", "config_temp")
    /\ UNCHANGED Shared

\* analyze_data, line 61
analyze_data_config(p) == ConfigGet(p, "config_temp", "TempDirectory", "exists")

\* analyze_data, line 62: makedirs is called only for a directory that
\* os.path.exists reports absent.
AlwaysMakedirs(d) == "makedirs"
AfterExists(d) == IF d.exists THEN "name" ELSE "makedirs"

analyze_data_exists(p) ==
    /\ run[p].pc = "exists"
    /\ Goto(p, run[p], "exists", AfterExists(temp_dir))
    /\ UNCHANGED Shared

\* os.makedirs on a directory that is absent: it exists afterwards.
Created(d, p) == [d EXCEPT !.exists = TRUE, !.made_by = p]

\* analyze_data, line 63: os.makedirs(temp_dir) raises when the directory has
\* appeared since line 62, or cannot be created.
analyze_data_makedirs(p) ==
    /\ run[p].pc = "makedirs"
    /\ IF temp_dir.exists
       THEN /\ Fail(p, "FileExistsError")
            /\ events' = events \cup {"mkdir_race"}
            /\ temp_dir' = temp_dir
       ELSE \E outcome \in {"ok", "PermissionError"} :
               IF outcome = "ok"
               THEN /\ Goto(p, run[p], "makedirs", "name")
                    /\ temp_dir' = Created(temp_dir, p)
                    /\ events' = events
               ELSE /\ Fail(p, outcome)
                    /\ temp_dir' = temp_dir
                    /\ events' = events
    /\ UNCHANGED <<workbook, config, registry, now, invocations, overlap>>

\* strftime('%Y%m%d_%H%M%S'): the timestamp has the resolution of one second.
Timestamp(t) == t \div TicksPerSecond
FileName(t) == <<"JAWSCasemgrRecon_", Timestamp(t), ".xlsx">>

\* analyze_data, lines 65-68
analyze_data_name(p) ==
    /\ run[p].pc = "name"
    /\ Goto(p, [run[p] EXCEPT !.output_file = FileName(now)], "name", "to_excel")
    /\ UNCHANGED Shared

\* to_excel replaces a file of the same name.
Written(d, name, content, p) ==
    [d EXCEPT !.reports = {f \in d.reports : f.name # name}
                          \cup {[name |-> name, content |-> content, by |-> p]}]

\* analyze_data, lines 69-71: the report is written (and printed)
analyze_data_to_excel(p) ==
    /\ run[p].pc = "to_excel"
    /\ \E outcome \in {"ok", "OSError"} :
          IF outcome = "ok"
          THEN /\ Goto(p, run[p], "to_excel", "done")
               /\ temp_dir' = Written(temp_dir, run[p].output_file, run[p].discrepancies, p)
               /\ events' = IF /\ overlap
                               /\ \E q \in Procs \ {p} :
                                     /\ run[q].pc = "done"
                                     /\ run[q].output_file = run[p].output_file
                                     /\ \E f \in temp_dir.reports :
                                           f.name = run[p].output_file /\ f.by = q
                            THEN events \cup {"overwrite"} ELSE events
          ELSE /\ Fail(p, outcome)
               /\ temp_dir' = temp_dir
               /\ events' = events
    /\ UNCHANGED <<workbook, config, registry, now, invocations, overlap>>

\* ------------------------------------------------------------------------
\* Specifications
\* ------------------------------------------------------------------------
LocalRun(p) ==
    \/ execute_locally(p)
    \/ analyze_data_process(p)
    \/ analyze_data_merge(p)
    \/ analyze_data_compare(p)
    \/ analyze_data_config(p)
    \/ analyze_data_exists(p)
    \/ analyze_data_makedirs(p)
    \/ analyze_data_name(p)
    \/ analyze_data_to_excel(p)

execute_full(p) ==
    \/ execute_full_config_jaws(p)
    \/ execute_full_client_jaws(p)
    \/ execute_full_query_test(p)
    \/ execute_full_execute(p)
    \/ execute_full_config_case(p)
    \/ execute_full_client_case(p)
    \/ execute_full_query_case(p)

\* Two processes, each invoking either entry operation, at any pace.
Next ==
    \/ Tick
    \/ \E p \in Procs : \E m \in {"local", "full"} : Invoke(p, m)
    \/ \E p \in Procs : execute_full(p)
    \/ \E p \in Procs : LocalRun(p)

Spec == Init /\ [][Next]_vars

\* One local-mode run of process 1 over any workbook within the bounds, as
\* far as the discrepancy set.
InvokeOnce == invocations = 0 /\ Invoke(1, "local")
NextData ==
    \/ InvokeOnce
    \/ execute_locally(1)
    \/ analyze_data_process(1)
    \/ analyze_data_merge(1)
    \/ analyze_data_compare(1)

SpecData == InitData /\ [][NextData]_vars

\* ------------------------------------------------------------------------
\* Properties: vocabulary
\* ------------------------------------------------------------------------
Did(p, step) == step \in Range(run[p].trace)
\* process_data was called in the current run of p and has returned or raised.
ProcessAttempted(p) == Did(p, "read_excel") /\ run[p].pc # "process"
ProcessRaised(p) == ProcessAttempted(p) /\ ~Did(p, "process")

Count(s, Test(_)) == Cardinality({i \in 1..Len(s) : Test(s[i])})
SepPositions(key) == {i \in 1..Len(key) : key[i] = "3"}
Segments(key) == Cardinality(SepPositions(key)) + 1
AllJsonValid(table) == \A i \in 1..Len(table) : table[i].CASE_DATA.kind = "array"
LongestKey(table) == MaxOf({Segments(table[i].key) : i \in 1..Len(table)})
MinOf(S) == CHOOSE x \in S : \A y \in S : x <= y
\* The text after the last separator, and between the first two.
LastSegment(key) == SubSeq(key, MaxOf(SepPositions(key)) + 1, Len(key))
SecondSegment(key) ==
    LET a == MinOf(SepPositions(key))
        b == MinOf(SepPositions(key) \ {a})
    IN SubSeq(key, a + 1, b - 1)
\* The positions in case_df of the Case Records made from a Casemgr row.
RecordsOf(p, row) ==
    {k \in 1..Len(run[p].case_df) : run[p].case_df[k].JOURNAL_ID = row.JOURNAL_ID}

\* Text with its outer whitespace cut off, and text with all whitespace cut out.
Trimmed(s) ==
    LET ink == {i \in 1..Len(s) : s[i] \notin Whitespace}
    IN IF ink = {} THEN <<>> ELSE SubSeq(s, MinOf(ink), MaxOf(ink))
Squeezed(s) == SelectIdx(s, LAMBDA c : c \notin Whitespace)
LowerChar(c) == CASE c = "A" -> "a" [] c = "B" -> "b" [] OTHER -> c
Folded(s) == [i \in 1..Len(s) |-> LowerChar(s[i])]
\* v is s with its outer whitespace cut off and its letters in upper case.
IsCleaned(v, s) ==
    /\ Folded(v) = Folded(Trimmed(s))
    /\ \A i \in 1..Len(v) : v[i] \notin {"a", "b"}

\* ------------------------------------------------------------------------
\* C4  Outer join completeness: every Case Record and every JAWS Record is
\* in at least one merged row; Case identifiers {x, y} and JAWS identifiers
\* {y, z}, one record each, give exactly three rows: x without JAWS side, y
\* with both sides, z without Case side.
\* ------------------------------------------------------------------------
CaseSide(m) == [CASE_DATA |-> m.CASE_DATA, JOURNAL_ID |-> m.JOURNAL_ID, Status |-> m.Status,
                Symbol |-> m.Symbol, Security_ID |-> m.Security_ID]
JawsSide(m) == [IDN_REQUEST |-> m.IDN_REQUEST, CDE_JNL_STA |-> m.CDE_JNL_STA]

\* The Case identifiers are {x, y} and the JAWS identifiers {y, z}, one record each.
ABC(p, x, y, z) ==
    /\ Len(run[p].case_df) = 2 /\ Len(run[p].jaws_df) = 2
    /\ {run[p].case_df[i].Security_ID : i \in 1..2} = {x, y}
    /\ {run[p].jaws_df[i].IDN_REQUEST : i \in 1..2} = {y, z}
    /\ Cardinality({x, y, z}) = 3 /\ NoneStr \notin {x, y, z}
ThreeRows(p, x, y, z) ==
    LET m == run[p].merged_data
    IN /\ Len(m) = 3
       /\ Count(m, LAMBDA r : r.Security_ID = x /\ JawsSide(r) = AbsentJaws) = 1
       /\ Count(m, LAMBDA r : r.Security_ID = y /\ r.IDN_REQUEST = y) = 1
       /\ Count(m, LAMBDA r : CaseSide(r) = AbsentCase /\ r.IDN_REQUEST = z) = 1

C4_OuterJoinComplete ==
    \A p \in Procs : Did(p, "merge") =>
        /\ \A i \in 1..Len(run[p].case_df) :
              \E k \in 1..Len(run[p].merged_data) :
                 CaseSide(run[p].merged_data[k]) = run[p].case_df[i]
        /\ \A j \in 1..Len(run[p].jaws_df) :
              \E k \in 1..Len(run[p].merged_data) :
                 JawsSide(run[p].merged_data[k]) = run[p].jaws_df[j]
        /\ (Len(run[p].case_df) = 2 /\ Len(run[p].jaws_df) = 2) =>
              \A i, j \in 1..2 :
                 LET x == run[p].case_df[i].Security_ID
                     y == run[p].case_df[3 - i].Security_ID
                     z == run[p].jaws_df[j].IDN_REQUEST
                 IN ABC(p, x, y, z) => ThreeRows(p, x, y, z)

C4_Witness ==
    \E p \in Procs :
        /\ Did(p, "merge")
        /\ ABC(p, <<"C">>, <<"A", "B">>, <<"D">>)
        /\ ThreeRows(p, <<"C">>, <<"A", "B">>, <<"D">>)

\* ------------------------------------------------------------------------
\* C5  Discrepancy filter: compare_data keeps exactly the merged rows whose
\* Status and CDE_JNL_STA are not both present and equal, each as often as it
\* occurs in the merged set and unaltered.
\* ------------------------------------------------------------------------
SameStatus(r) == r.Status # NaN /\ r.CDE_JNL_STA # NaN /\ r.Status = r.CDE_JNL_STA

C5_DiscrepancyFilter ==
    \A p \in Procs : Did(p, "compare") =>
        /\ Range(run[p].discrepancies) \subseteq Range(run[p].merged_data)
        /\ \A r \in Range(run[p].merged_data) :
              Count(run[p].discrepancies, LAMBDA d : d = r)
                 = IF SameStatus(r) THEN 0
                   ELSE Count(run[p].merged_data, LAMBDA m : m = r)

C5_Witness ==
    \E p \in Procs :
        /\ Did(p, "compare")
        /\ \E r \in Range(run[p].merged_data) :
              SameStatus(r) /\ r \notin Range(run[p].discrepancies)
        /\ \E r \in Range(run[p].discrepancies) :
              r.Status = "OPEN" /\ r.CDE_JNL_STA = "CLOSED"
        /\ \E r \in Range(run[p].discrepancies) :
              r.Status = "OPEN" /\ r.CDE_JNL_STA = NaN

\* ------------------------------------------------------------------------
\* C6  Key splitting.  As claimed: the key "A3SYM3B3SEC123" yields Symbol
\* "SYM" and Security ID "SEC123".
\* ------------------------------------------------------------------------
HasExampleKey(table) == \E i \in 1..Len(table) : table[i].key = Key_Example

C6_ExampleKeySplits ==
    \A p \in Procs :
        (ProcessAttempted(p) /\ AllJsonValid(run[p].casemgr_data)
            /\ HasExampleKey(run[p].casemgr_data))
        => \E i \in 1..Len(run[p].case_df) :
              /\ run[p].case_df[i].Symbol = <<"S", "Y", "M">>
              /\ run[p].case_df[i].Security_ID = <<"S", "E", "C", "1", "2", "3">>

\* C6, amended: when process_data returns, every Case Record of a row whose
\* key has exactly four "3"-delimited segments m1, S, m2, I has Symbol = S and
\* Security ID = I trimmed and upper-cased, the markers being dropped; the key
\* "A3SYM3B3SEC123" has five segments (the "3" that ends "SEC123" separates
\* too), and process_data raises ValueError on a table that holds it.
C6_FourSegmentKey ==
    \A p \in Procs :
        /\ Did(p, "process") =>
              \A i \in 1..Len(run[p].casemgr_data) :
                 LET row == run[p].casemgr_data[i]
                 IN Segments(row.key) = 4 =>
                       /\ RecordsOf(p, row) # {}
                       /\ \A k \in RecordsOf(p, row) :
                             LET rec == run[p].case_df[k]
                             IN /\ rec.Symbol = SecondSegment(row.key)
                                /\ IsCleaned(rec.Security_ID, LastSegment(row.key))
                                /\ DOMAIN rec =
                                      {"CASE_DATA", "JOURNAL_ID", "Status", "Symbol", "Security_ID"}
        /\ (ProcessAttempted(p) /\ AllJsonValid(run[p].casemgr_data)
               /\ HasExampleKey(run[p].casemgr_data))
           => (ProcessRaised(p) /\ run[p].err = "ValueError")

C6_Witness ==
    \E p \in Procs :
        /\ Did(p, "process")
        /\ \E i \in 1..Len(run[p].casemgr_data) : run[p].casemgr_data[i].key = Key_ab
        /\ \E i \in 1..Len(run[p].case_df) :
              /\ run[p].case_df[i].Symbol = <<"S">>
              /\ run[p].case_df[i].Security_ID = <<"A", "B">>

\* ------------------------------------------------------------------------
\* C7  Malformed keys.  As claimed: a key whose segment count differs from
\* four never makes process_data raise, and its unfilled columns are absent.
\* ------------------------------------------------------------------------
C7_MalformedTolerated ==
    \A p \in Procs :
        (ProcessAttempted(p) /\ AllJsonValid(run[p].casemgr_data)
            /\ \E i \in 1..Len(run[p].casemgr_data) :
                  Segments(run[p].casemgr_data[i].key) # 4)
        => ~ProcessRaised(p)

\* C7, amended: process_data returns exactly when the longest key of the
\* table has four segments (all CASE_DATA being JSON); then a key with fewer
\* segments has its unfilled split columns left absent.  A table whose longest
\* key has more than four segments, or fewer, makes process_data raise
\* ValueError.
C7_ShortKeyTolerated ==
    \A p \in Procs :
        (ProcessAttempted(p) /\ AllJsonValid(run[p].casemgr_data)) =>
           /\ ProcessRaised(p) <=> LongestKey(run[p].casemgr_data) # 4
           /\ ProcessRaised(p) => run[p].err = "ValueError" /\ run[p].pc = "aborted"
           /\ ~ProcessRaised(p) =>
                 \A i \in 1..Len(run[p].casemgr_data) :
                    LET row == run[p].casemgr_data[i]
                    IN Segments(row.key) < 4 =>
                          /\ RecordsOf(p, row) # {}
                          /\ \A k \in RecordsOf(p, row) :
                                /\ run[p].case_df[k].Security_ID = NoneStr
                                /\ Segments(row.key) < 2 => run[p].case_df[k].Symbol = NoneStr

C7_Witness ==
    \E p \in Procs :
        /\ Did(p, "process")
        /\ \E i \in 1..Len(run[p].casemgr_data) : run[p].casemgr_data[i].key = Key_Short
        /\ \E i \in 1..Len(run[p].case_df) :
              /\ run[p].case_df[i].Security_ID = NoneStr
              /\ run[p].case_df[i].Symbol = <<"S">>

\* ------------------------------------------------------------------------
\* C8  CASE_DATA fan-out: when process_data returns, a row whose CASE_DATA
\* is an array of n >= 1 entries has exactly n Case Records, one per entry,
\* each with the row's other columns.
\* ------------------------------------------------------------------------
C8_FanOut ==
    \A p \in Procs : Did(p, "process") =>
        /\ \A i \in 1..Len(run[p].casemgr_data) :
              LET row == run[p].casemgr_data[i]
                  n == Len(row.CASE_DATA.items)
              IN n >= 1 =>
                    /\ Cardinality(RecordsOf(p, row)) = n
                    /\ \A e \in 1..n : \E k \in RecordsOf(p, row) :
                          run[p].case_df[k].CASE_DATA = row.CASE_DATA.items[e]
                    /\ \A k \in RecordsOf(p, row) :
                          /\ run[p].case_df[k].Status = row.value
                          /\ run[p].case_df[k].JOURNAL_ID = row.JOURNAL_ID
        /\ \A k \in 1..Len(run[p].case_df) :
              \E i \in 1..Len(run[p].casemgr_data) :
                 run[p].casemgr_data[i].JOURNAL_ID = run[p].case_df[k].JOURNAL_ID

C8_Witness ==
    \E p \in Procs :
        /\ Did(p, "process")
        /\ \E i \in 1..Len(run[p].casemgr_data) :
              /\ Len(run[p].casemgr_data[i].CASE_DATA.items) = MaxEntries
              /\ Cardinality(RecordsOf(p, run[p].casemgr_data[i])) = MaxEntries
        /\ MaxEntries >= 3

\* ------------------------------------------------------------------------
\* C9  Identifier matching.  As claimed: a Case Record and a JAWS Record
\* whose identifiers differ only in letter case or in whitespace (anywhere)
\* are in one merged row with both sides present.
\* ------------------------------------------------------------------------
Joined(p, row, jrow) ==
    \E k \in 1..Len(run[p].merged_data) :
        LET m == run[p].merged_data[k]
        IN /\ m.JOURNAL_ID = row.JOURNAL_ID
           /\ m.Security_ID # NoneStr
           /\ m.IDN_REQUEST # NoneStr
           /\ Folded(Trimmed(m.IDN_REQUEST)) = Folded(Trimmed(jrow.IDN_REQUEST))
           /\ m.CDE_JNL_STA = jrow.CDE_JNL_STA

C9_WhitespaceInsensitive ==
    \A p \in Procs : Did(p, "merge") =>
        \A i \in 1..Len(run[p].casemgr_data) : \A j \in 1..Len(run[p].jaws_data) :
           LET row == run[p].casemgr_data[i]
               jrow == run[p].jaws_data[j]
           IN (/\ Segments(row.key) = 4
               /\ Folded(Squeezed(LastSegment(row.key))) = Folded(Squeezed(jrow.IDN_REQUEST)))
              => Joined(p, row, jrow)

\* C9, amended: identifiers that differ only in letter case or in leading and
\* trailing whitespace are in one merged row with both sides present, and
\* identifiers that still differ after trimming and case folding (whitespace
\* inside an identifier is kept) are not.
C9_TrimCaseInsensitive ==
    \A p \in Procs : Did(p, "merge") =>
        \A i \in 1..Len(run[p].casemgr_data) : \A j \in 1..Len(run[p].jaws_data) :
           LET row == run[p].casemgr_data[i]
               jrow == run[p].jaws_data[j]
           IN Segments(row.key) = 4 =>
                 (Folded(Trimmed(LastSegment(row.key))) = Folded(Trimmed(jrow.IDN_REQUEST))
                    <=> Joined(p, row, jrow))

C9_Witness ==
    \E p \in Procs :
        /\ Did(p, "merge")
        /\ \E i \in 1..Len(run[p].casemgr_data) : \E j \in 1..Len(run[p].jaws_data) :
              /\ run[p].casemgr_data[i].key = Key_ab
              /\ run[p].jaws_data[j].IDN_REQUEST = Id_ab
              /\ Joined(p, run[p].casemgr_data[i], run[p].jaws_data[j])
        /\ \E i \in 1..Len(run[p].casemgr_data) : \E j \in 1..Len(run[p].jaws_data) :
              /\ run[p].casemgr_data[i].key = Key_AB
              /\ run[p].jaws_data[j].IDN_REQUEST = Id_ab
              /\ Joined(p, run[p].casemgr_data[i], run[p].jaws_data[j])

\* ------------------------------------------------------------------------
\* C1  Full-mode fallback: a full-mode run that gets past its database and
\* configuration steps goes on into execute_locally, analyses the two sheets
\* of the workbook and not the table it fetched, and reports what a local-mode
\* run over the same workbook reports.
\* ------------------------------------------------------------------------
FullStepNames == <<"config_jaws", "client_jaws", "query_test", "execute",
                   "config_case", "client_case", "query_case">>
FullPcs == Range(FullStepNames)

StepsBeforeWrite == <<"read_excel", "process", "merge", "compare", "config_temp", "exists">>
LocalPart(p) ==
    IF run[p].mode = "full" THEN SubSeq(run[p].trace, Len(FullStepNames) + 1, Len(run[p].trace))
    ELSE run[p].trace

C2_NoPartialReport ==
    /\ temp_dir.reports # {} =>
          /\ workbook.present
          /\ AllJsonValid(workbook.Casemgr)
          /\ LongestKey(workbook.Casemgr) = 4
          /\ "TempDirectory" \in config
          /\ temp_dir.exists
    /\ \A p \in Procs :
          /\ (run[p].pc = "done" \/ Did(p, "to_excel")) =>
                /\ Len(LocalPart(p)) >= Len(StepsBeforeWrite)
                /\ SubSeq(LocalPart(p), 1, Len(StepsBeforeWrite)) = StepsBeforeWrite
                /\ run[p].err = "none"
                /\ \E f \in temp_dir.reports : f.name = run[p].output_file
          /\ run[p].pc = "aborted" => (run[p].err # "none" /\ ~Did(p, "to_excel"))
          /\ run[p].err # "none" => run[p].pc = "aborted"

C2_Witness ==
    \E p \in Procs :
        /\ run[p].pc = "aborted"
        /\ run[p].err = "JSONDecodeError"
        /\ ~AllJsonValid(workbook.Casemgr)
        /\ \A q \in Procs : run[q].pc = "aborted"
        /\ temp_dir.reports = {}

\* ------------------------------------------------------------------------
\* C3  A database failure in full mode is fatal where it happens: the run
\* has ended, it never entered execute_locally and wrote nothing; a full-mode
\* run is inside execute_locally only after all seven full-mode steps.
\* ------------------------------------------------------------------------
DbErrors == {"ConnectionError", "QueryError"}
IsPrefix(a, b) == Len(a) <= Len(b) /\ SubSeq(b, 1, Len(a)) = a

C3_DbFailureFatal ==
    \A p \in Procs :
        /\ run[p].err \in DbErrors =>
              /\ run[p].mode = "full"
              /\ run[p].pc = "aborted"
              /\ IsPrefix(run[p].trace, FullStepNames)
              /\ Len(run[p].trace) \in {1, 3, 5}
              /\ ~Did(p, "read_excel") /\ ~Did(p, "to_excel")
              /\ run[p].output_file = NoFile
        /\ (run[p].mode = "full" /\ (run[p].pc = "read_excel" \/ Did(p, "read_excel"))) =>
              (IsPrefix(FullStepNames, run[p].trace) /\ run[p].err \notin DbErrors)

C3_Witness ==
    \E p \in Procs :
        /\ run[p].err = "QueryError"
        /\ run[p].pc = "aborted"
        /\ run[p].trace = SubSeq(FullStepNames, 1, 3)
        /\ \A f \in temp_dir.reports : f.by # p

\* ------------------------------------------------------------------------
\* C10  No mutual exclusion in the emit step.  A run alone meets neither
\* race, and a directory no run created keeps its unrelated files; makedirs
\* fails with FileExistsError only in a run that found the directory absent
\* and lost the creation to another process, and that run aborts; two runs
\* that computed the same file name leave one report, the later writer's.
\* The witness is a behaviour in which both races have happened.
\* ------------------------------------------------------------------------
C10_RacesNeedTwoRuns ==
    /\ invocations <= 1 =>
          /\ events = {}
          /\ \A p \in Procs : run[p].err # "FileExistsError"
    /\ \A p \in Procs : run[p].err = "FileExistsError" =>
          /\ run[p].pc = "aborted"
          /\ Did(p, "exists") /\ ~Did(p, "makedirs")
          /\ temp_dir.exists /\ temp_dir.made_by \in Procs \ {p}
          /\ "mkdir_race" \in events
    /\ (temp_dir.exists /\ temp_dir.made_by = 0) => temp_dir.other = Unrelated
    /\ \A p \in Procs : Did(p, "makedirs") => temp_dir.made_by # 0
    /\ \A p, q \in Procs :
          (/\ p # q /\ run[p].pc = "done" /\ run[q].pc = "done"
           /\ run[p].output_file = run[q].output_file)
          => \E f \in temp_dir.reports :
                /\ {g \in temp_dir.reports : g.name = run[p].output_file} = {f}
                /\ \/ f.by = p /\ f.content = run[p].discrepancies
                   \/ f.by = q /\ f.content = run[q].discrepancies

C10_Witness ==
    /\ events = {"mkdir_race", "overwrite"}
    /\ \E p, q \in Procs :
          /\ p # q /\ run[p].pc = "done" /\ run[q].pc = "done"
          /\ run[p].output_file = run[q].output_file
          /\ \E f \in temp_dir.reports : f.name = run[p].output_file /\ f.by = p
          /\ ~\E f \in temp_dir.reports : f.by = q
=============================================================================
